---------------------------- MODULE Spec2Model ----------------------------
(***************************************************************************)
(* A model of the id-set crate: IdSet, a bit-vector set of usize ids with  *)
(* a cached element count (src/lib.rs), over BlockStore, a hybrid          *)
(* inline/heap sequence of 32-bit blocks (src/store.rs).                   *)
(*                                                                         *)
(* A Block (u32) is modelled as the set of its one-bit positions, a subset *)
(* of 0..BITS-1: bit i of the block is set iff i is in the set.  Bitwise   *)
(* operators are the set operators; +1 and -1 are the wrapping binary      *)
(* increment and decrement on that representation.                         *)
(*                                                                         *)
(* A Vec<Block> is modelled by its contents (a sequence) and its capacity. *)
(***************************************************************************)
EXTENDS Integers, Sequences, FiniteSets, TLC

\* ------------------------------------------------------------------------
\* Program constants

\* pub const BITS: usize = 32
BITS == 32

\* const SIZE: usize = 196 / BITS
SIZE == 196 \div BITS

\* ------------------------------------------------------------------------
\* Bounds of the model

\* Highest block index an id of the model addresses (ids reach BITS * MaxWord).
MaxWord == 7

\* Longest id sequence collected into a set.
MaxCollect == 3

\* Most inserts that build an operand of a view or relation.
MaxBuild == 2

\* ------------------------------------------------------------------------
\* Blocks (u32) as sets of bit positions

BitPos == 0 .. (BITS - 1)

ZERO == {}

\* !0
ONES == BitPos

Min(S) == CHOOSE x \in S : \A y \in S : x <= y

Max(S) == CHOOSE x \in S : \A y \in S : x >= y

\* a & b, a | b, a ^ b, !a on u32
BitAnd(x, y) == x \cap y

BitOr(x, y) == x \cup y

BitXor(x, y) == (x \ y) \cup (y \ x)

BitNot(x) == BitPos \ x

\* x + 1 on u32 (wrapping): the lowest zero bit becomes one, the ones below it zero.
WrapInc(x) ==
    IF x = ONES THEN ZERO
    ELSE LET z == Min(BitPos \ x)
         IN  {b \in x : b > z} \cup {z}

\* x - 1 on u32 (wrapping): the lowest one bit becomes zero, the zeros below it one.
WrapDec(x) ==
    IF x = ZERO THEN ONES
    ELSE LET l == Min(x)
         IN  {b \in x : b > l} \cup (0 .. (l - 1))

\* u32::count_ones
count_ones(x) == Cardinality(x)

\* fn mask(bit: usize) -> Block { (1 as Block) << bit }
mask(bit) == {bit}

\* fn ceil_div(n, k)
ceil_div(n, k) == IF n % k = 0 THEN n \div k ELSE (n \div k) + 1

\* Option<T>
None == <<>>

Some(x) == <<x>>

\* The width of usize: the model is of a 16-bit target, the narrowest there is.
usize_BITS == 16

usize_MAX == 2 ^ usize_BITS - 1

\* usize::checked_mul: None when the product does not fit.
checked_mul(x, y) == IF x * y > usize_MAX THEN None ELSE Some(x * y)

\* Option::unwrap_or
unwrap_or(item, default) == IF item = None THEN default ELSE item[1]

\* ------------------------------------------------------------------------
\* Vec<Block>: contents and capacity

Zeros(n) == [i \in 1 .. n |-> ZERO]

\* The first n elements of a sequence.
Take(s, n) == SubSeq(s, 1, n)

\* The elements of a sequence after the first n.
Drop(s, n) == SubSeq(s, n + 1, Len(s))

\* Vec::reserve(additional): amortized growth when the spare capacity is short.
vec_reserve(data, cap, additional) ==
    IF cap - Len(data) >= additional THEN cap
    ELSE Max({2 * cap, Len(data) + additional, 4})

\* ------------------------------------------------------------------------
\* BlockStore: Stack([Block; SIZE]) | Heap(Vec<Block>)
\* A store is [kind, data, cap]; a Stack store always holds SIZE blocks.

Stack(arr) == [kind |-> "Stack", data |-> arr, cap |-> SIZE]

Heap(data, cap) == [kind |-> "Heap", data |-> data, cap |-> cap]

BlockStore_new == Stack(Zeros(SIZE))

BlockStore_with_capacity(cap) ==
    IF cap < SIZE THEN Stack(Zeros(SIZE)) ELSE Heap(<<>>, cap)

\* BlockStore_clear, resetting a Heap store to the inline array as well.
BlockStore_clear_inline(st) == Stack(Zeros(SIZE))

\* BlockStore_clear, without the reset of the inline array.
BlockStore_clear_heap_only(st) ==
    IF st.kind = "Heap" THEN Heap(<<>>, st.cap) ELSE st

BlockStore_clear(st) ==
    IF st.kind = "Heap" THEN Heap(<<>>, st.cap) ELSE Stack(Zeros(SIZE))

BlockStore_capacity(st) ==
    IF st.kind = "Heap" THEN st.cap ELSE SIZE

BlockStore_reserve(st, cap) ==
    IF cap >= SIZE
    THEN IF st.kind = "Stack"
         THEN Heap(st.data, cap)
         ELSE Heap(st.data, vec_reserve(st.data, st.cap, cap))
    ELSE st

\* while let Some(&0) = vec.last() { vec.pop(); }
RECURSIVE pop_zeros(_)
pop_zeros(data) ==
    IF Len(data) > 0 /\ data[Len(data)] = ZERO
    THEN pop_zeros(Take(data, Len(data) - 1))
    ELSE data

\* shrink_to_fit, without the pops of the trailing zero blocks.
BlockStore_shrink_unpopped(st) ==
    IF st.kind = "Stack" THEN st
    ELSE IF Len(st.data) < SIZE
         THEN Stack(st.data \o Zeros(SIZE - Len(st.data)))
         ELSE Heap(st.data, Len(st.data))

BlockStore_shrink_to_fit(st) ==
    IF st.kind = "Stack" THEN st
    ELSE LET vec == pop_zeros(st.data)
         IN  IF Len(vec) < SIZE
             THEN Stack(vec \o Zeros(SIZE - Len(vec)))
             ELSE Heap(vec, Len(vec))

\* drain(idx), run to its end: the blocks it yields, the store it leaves, and
\* whether the assertion (Stack) or the range check of Vec::drain (Heap) failed.
\* BlockStore_drain, the inline array keeping the blocks it yields.
BlockStore_drain_unzeroed(st, idx) ==
    IF st.kind = "Stack"
    THEN IF idx <= SIZE
         THEN [yield |-> Drop(st.data, idx), store |-> st, fault |-> "none"]
         ELSE [yield |-> <<>>, store |-> st, fault |-> "assert"]
    ELSE IF idx <= Len(st.data)
         THEN [yield |-> Drop(st.data, idx),
               store |-> Heap(Take(st.data, idx), st.cap),
               fault |-> "none"]
         ELSE [yield |-> <<>>, store |-> st, fault |-> "index"]

BlockStore_drain(st, idx) ==
    IF st.kind = "Stack"
    THEN IF idx <= SIZE
         THEN [yield |-> Drop(st.data, idx),
               store |-> Stack(Take(st.data, idx) \o Zeros(SIZE - idx)),
               fault |-> "none"]
         ELSE [yield |-> <<>>, store |-> st, fault |-> "assert"]
    ELSE IF idx <= Len(st.data)
         THEN [yield |-> Drop(st.data, idx),
               store |-> Heap(Take(st.data, idx), st.cap),
               fault |-> "none"]
         ELSE [yield |-> <<>>, store |-> st, fault |-> "index"]

\* Vec::resize(new_len, 0)
vec_resize(data, cap, new_len) ==
    IF new_len > Len(data)
    THEN Heap(data \o Zeros(new_len - Len(data)),
              vec_reserve(data, cap, new_len - Len(data)))
    ELSE Heap(Take(data, new_len), cap)

\* resize, promoting to a zeroed Vec without the inline blocks.
BlockStore_resize_fresh(st, new_len) ==
    IF st.kind = "Stack"
    THEN IF new_len < SIZE
         THEN Stack(Zeros(SIZE))
         ELSE Heap(Zeros(new_len), new_len)
    ELSE vec_resize(st.data, st.cap, new_len)

BlockStore_resize(st, new_len) ==
    IF st.kind = "Stack"
    THEN IF new_len < SIZE
         THEN Stack(Zeros(SIZE))
         ELSE Heap(st.data \o Zeros(new_len - SIZE), new_len)
    ELSE vec_resize(st.data, st.cap, new_len)

\* Extend<Block>: iter is the sequence of blocks the iterator still yields.
BlockStore_extend(st, iter) ==
    IF st.kind = "Heap"
    THEN Heap(st.data \o iter, vec_reserve(st.data, st.cap, Len(iter)))
    ELSE Heap(st.data \o iter, SIZE + Len(iter))

\* FromIterator<Block> for an exactly sized iterator.
BlockStore_from_iter(iter) ==
    IF Len(iter) < SIZE
    THEN Stack(iter \o Zeros(SIZE - Len(iter)))
    ELSE Heap(iter, Len(iter))

\* BlockStore_clone, a heap store cloned as an allocation of the same size
\* without its blocks.
BlockStore_clone_unfilled(st) ==
    IF st.kind = "Stack" THEN st ELSE Heap(<<>>, Len(st.data))

\* Clone (derived): the array is copied; a Vec is cloned to a Vec of its length.
BlockStore_clone(st) ==
    IF st.kind = "Stack" THEN st ELSE Heap(st.data, Len(st.data))

\* Deref: the slice of blocks, and its length.
blocks_len(st) == Len(st.data)


\* ------------------------------------------------------------------------
\* IdSet { blocks: BlockStore, len: usize }
\* A mutating method is an operator from the set (and its arguments) to a
\* result [set, ret, fault]: the set afterwards, the value returned, and
\* "none" or the failure the call ran into ("underflow": a decrement of a
\* usize below zero; "index": an index out of range; "assert": a failed
\* assertion).

IdSet(blocks, len) == [blocks |-> blocks, len |-> len]

Res(set, ret, fault) == [set |-> set, ret |-> ret, fault |-> fault]

\* The value recorded for a method that returns ().
NoRet == FALSE

\* The first failure wins.
Fault(f, g) == IF f # "none" THEN f ELSE g

\* len -= k on usize
SubFault(len, k) == IF k > len THEN "underflow" ELSE "none"

IdSet_new == IdSet(BlockStore_new, 0)

\* new_filled, the last block mask(nbits) without the - 1.
new_filled_mask(n) ==
    LET nwords == n \div BITS
        nbits  == n % BITS
        full   == [i \in 1 .. nwords |-> ONES]
        blocks == IF nbits # 0
                  THEN BlockStore_from_iter(full \o <<mask(nbits)>>)
                  ELSE BlockStore_from_iter(full)
    IN  IdSet(blocks, n)

new_filled(n) ==
    LET nwords == n \div BITS
        nbits  == n % BITS
        full   == [i \in 1 .. nwords |-> ONES]
        blocks == IF nbits # 0
                  THEN BlockStore_from_iter(full \o <<WrapDec(mask(nbits))>>)
                  ELSE BlockStore_from_iter(full)
    IN  IdSet(blocks, n)

with_capacity(n) == IdSet(BlockStore_with_capacity(ceil_div(n, BITS)), 0)

RECURSIVE sum_ones(_)
sum_ones(bytes) ==
    IF bytes = <<>> THEN 0
    ELSE count_ones(Head(bytes)) + sum_ones(Tail(bytes))

from_bytes(bytes) == IdSet(BlockStore_from_iter(bytes), sum_ones(bytes))

IdSet_len(s) == s.len

is_empty(s) == s.len = 0

\* capacity(), the product by wrapping_mul.
capacity_wrapping(s) == (BlockStore_capacity(s.blocks) * BITS) % (usize_MAX + 1)

\* capacity(): the product saturates at usize::MAX.
capacity(s) == unwrap_or(checked_mul(BlockStore_capacity(s.blocks), BITS), usize_MAX)

reserve(s, cap) == IdSet(BlockStore_reserve(s.blocks, ceil_div(cap, BITS)), s.len)

shrink_to_fit(s) == IdSet(BlockStore_shrink_to_fit(s.blocks), s.len)

clear(s) == IdSet(BlockStore_clear(s.blocks), 0)

clone(s) == IdSet(BlockStore_clone(s.blocks), s.len)

\* self.blocks with block `word` (counted from 0) set to v.
with_block(st, word, v) == [st EXCEPT !.data[word + 1] = v]

insert(s, id) ==
    LET word == id \div BITS
        bit  == id % BITS
        m    == mask(bit)
    IN  IF word < blocks_len(s.blocks)
        THEN IF BitAnd(s.blocks.data[word + 1], m) = ZERO
             THEN Res(IdSet(with_block(s.blocks, word,
                                       BitOr(s.blocks.data[word + 1], m)),
                            s.len + 1),
                      TRUE, "none")
             ELSE Res(s, FALSE, "none")
        ELSE LET grown == BlockStore_resize(s.blocks, word + 1)
             IN  IF word < blocks_len(grown)
                 THEN Res(IdSet(with_block(grown, word, m), s.len + 1),
                          TRUE, "none")
                 ELSE Res(IdSet(grown, s.len), TRUE, "index")

\* remove, with the mask where its complement belongs.
remove_masked(s, id) ==
    LET word == id \div BITS
        bit  == id % BITS
        m    == mask(bit)
    IN  IF word < blocks_len(s.blocks)
        THEN IF BitAnd(s.blocks.data[word + 1], m) # ZERO
             THEN Res(IdSet(with_block(s.blocks, word,
                                       BitAnd(s.blocks.data[word + 1], m)),
                            s.len - 1),
                      TRUE, SubFault(s.len, 1))
             ELSE Res(s, FALSE, "none")
        ELSE Res(s, FALSE, "none")

remove(s, id) ==
    LET word == id \div BITS
        bit  == id % BITS
        m    == mask(bit)
    IN  IF word < blocks_len(s.blocks)
        THEN IF BitAnd(s.blocks.data[word + 1], m) # ZERO
             THEN Res(IdSet(with_block(s.blocks, word,
                                       BitAnd(s.blocks.data[word + 1], BitNot(m))),
                            s.len - 1),
                      TRUE, SubFault(s.len, 1))
             ELSE Res(s, FALSE, "none")
        ELSE Res(s, FALSE, "none")

contains(s, id) ==
    LET word == id \div BITS
        bit  == id % BITS
    IN  IF word < blocks_len(s.blocks)
        THEN BitAnd(s.blocks.data[word + 1], mask(bit)) # ZERO
        ELSE FALSE

\* The predicates retain is called with, by name.
Pred(p, id) ==
    IF p = "even" THEN id % 2 = 0
    ELSE IF p = "high" THEN id >= BITS
    ELSE FALSE

\* retain(pred): the predicate is one of those of Pred above.
\* The loops run over acc = [data, len, fault, calls], calls the ids pred
\* has been called with, in call order.

\* The body of the inner loop, with pred called whatever the bit is.
retain_bit_eager(acc, w, bit, keep) ==
    LET id  == BITS * (w - 1) + bit
        hit == bit \in acc.data[w] /\ ~ Pred(keep, id)
    IN  [data  |-> IF hit THEN [acc.data EXCEPT ![w] = @ \ mask(bit)] ELSE acc.data,
         len   |-> IF hit THEN acc.len - 1 ELSE acc.len,
         fault |-> IF hit THEN Fault(acc.fault, SubFault(acc.len, 1)) ELSE acc.fault,
         calls |-> Append(acc.calls, id)]

\* if (*word & mask) != 0 && !pred(id) { self.len -= 1; *word &= !mask; }
\* pred is called only when the bit is set (&& short-circuits).
retain_bit(acc, w, bit, keep) ==
    LET id == BITS * (w - 1) + bit
    IN  IF BitAnd(acc.data[w], mask(bit)) = ZERO THEN acc
        ELSE IF Pred(keep, id)
        THEN [acc EXCEPT !.calls = Append(@, id)]
        ELSE [data  |-> [acc.data EXCEPT ![w] = BitAnd(@, BitNot(mask(bit)))],
              len   |-> acc.len - 1,
              fault |-> Fault(acc.fault, SubFault(acc.len, 1)),
              calls |-> Append(acc.calls, id)]

\* for bit in 0..BITS; a panic of the body ends the loop.
RECURSIVE retain_bits(_, _, _, _)
retain_bits(acc, w, bit, keep) ==
    IF acc.fault # "none" \/ bit = BITS THEN acc
    ELSE retain_bits(retain_bit(acc, w, bit, keep), w, bit + 1, keep)

\* for word in self.blocks.iter_mut()
RECURSIVE retain_words(_, _, _)
retain_words(acc, w, keep) ==
    IF acc.fault # "none" \/ w > Len(acc.data) THEN acc
    ELSE retain_words(retain_bits(acc, w, 0, keep), w + 1, keep)

retain_run(s, keep) ==
    retain_words([data |-> s.blocks.data, len |-> s.len, fault |-> "none",
                  calls |-> <<>>],
                 1, keep)

\* The value recorded for a retain is the sequence of ids pred was called with.
retain(s, keep) ==
    LET r == retain_run(s, keep)
    IN  Res(IdSet([s.blocks EXCEPT !.data = r.data], r.len), r.calls, r.fault)


\* ------------------------------------------------------------------------
\* In-place algebra.  `blocks` is the sequence of blocks the other operand's
\* block iterator yields; its length is the iterator's len().
\* The loops run over acc = [data, len, fault].

Acc(data, n, fault) == [data |-> data, len |-> n, fault |-> fault]

\* drain_count, leaving the count of the drained blocks in len.
drain_count_skipped(acc, yield) == acc

\* for block in self.blocks.drain(..) { self.len -= block.count_ones() }
RECURSIVE drain_count(_, _)
drain_count(acc, yield) ==
    IF yield = <<>> THEN acc
    ELSE LET k == count_ones(Head(yield))
         IN  drain_count(Acc(acc.data, acc.len - k,
                             Fault(acc.fault, SubFault(acc.len, k))),
                         Tail(yield))

\* for (lblock, rblock) in self.blocks.iter_mut().zip(blocks)   (&=)
RECURSIVE and_zip(_, _, _)
and_zip(acc, blocks, i) ==
    IF i > Len(acc.data) \/ i > Len(blocks) THEN acc
    ELSE LET l == acc.data[i]
             r == blocks[i]
             k == count_ones(BitAnd(l, BitNot(r)))
         IN  and_zip(Acc([acc.data EXCEPT ![i] = BitAnd(l, r)],
                         acc.len - k,
                         Fault(acc.fault, SubFault(acc.len, k))),
                     blocks, i + 1)

\* bitand_assign, draining from blocks.len() whether self is longer or not.
bitand_assign_unguarded(s, blocks) ==
    LET d  == BlockStore_drain(s.blocks, Len(blocks))
        a1 == drain_count(Acc(d.store.data, s.len, d.fault), d.yield)
        a2 == and_zip(a1, blocks, 1)
    IN  Res(IdSet([d.store EXCEPT !.data = a2.data], a2.len), NoRet, a2.fault)

bitand_assign(s, blocks) ==
    LET short == Len(blocks) < blocks_len(s.blocks)
        d     == IF short
                 THEN BlockStore_drain(s.blocks, Len(blocks))
                 ELSE [yield |-> <<>>, store |-> s.blocks, fault |-> "none"]
        a1    == drain_count(Acc(d.store.data, s.len, d.fault), d.yield)
        a2    == and_zip(a1, blocks, 1)
    IN  Res(IdSet([d.store EXCEPT !.data = a2.data], a2.len), NoRet, a2.fault)

\* for lblock in self.blocks.iter_mut() { if let Some(rblock) = blocks.next() .. }
\* (|=); the loop ends at the end of self, or returns when blocks ends first.
RECURSIVE or_loop(_, _, _)
or_loop(acc, blocks, i) ==
    IF i > Len(acc.data) \/ i > Len(blocks) THEN acc
    ELSE LET l == acc.data[i]
             r == blocks[i]
         IN  or_loop(Acc([acc.data EXCEPT ![i] = BitOr(l, r)],
                         acc.len + count_ones(BitAnd(r, BitNot(l))),
                         acc.fault),
                     blocks, i + 1)

\* extend_count, without the blocks of the other set past the end of self.
extend_count_dropped(s, a, blocks) ==
    Res(IdSet([s.blocks EXCEPT !.data = a.data], a.len), NoRet, a.fault)

\* self.blocks.extend(blocks.inspect(|block| *len += block.count_ones()))
extend_count(s, a, blocks) ==
    LET rest == Drop(blocks, Len(a.data))
    IN  Res(IdSet(BlockStore_extend([s.blocks EXCEPT !.data = a.data], rest),
                  a.len + sum_ones(rest)),
            NoRet, a.fault)

bitor_assign(s, blocks) ==
    LET a == or_loop(Acc(s.blocks.data, s.len, "none"), blocks, 1)
    IN  IF Len(blocks) < blocks_len(s.blocks)
        THEN Res(IdSet([s.blocks EXCEPT !.data = a.data], a.len), NoRet, a.fault)
        ELSE extend_count(s, a, blocks)

\* (^=)
RECURSIVE xor_loop(_, _, _)
xor_loop(acc, blocks, i) ==
    IF i > Len(acc.data) \/ i > Len(blocks) THEN acc
    ELSE LET l  == acc.data[i]
             r  == blocks[i]
             k  == count_ones(l)
             l2 == BitXor(l, r)
         IN  xor_loop(Acc([acc.data EXCEPT ![i] = l2],
                          (acc.len - k) + count_ones(l2),
                          Fault(acc.fault, SubFault(acc.len, k))),
                      blocks, i + 1)

bitxor_assign(s, blocks) ==
    LET a == xor_loop(Acc(s.blocks.data, s.len, "none"), blocks, 1)
    IN  IF Len(blocks) < blocks_len(s.blocks)
        THEN Res(IdSet([s.blocks EXCEPT !.data = a.data], a.len), NoRet, a.fault)
        ELSE extend_count(s, a, blocks)

\* (-=)
RECURSIVE sub_zip(_, _, _)
sub_zip(acc, blocks, i) ==
    IF i > Len(acc.data) \/ i > Len(blocks) THEN acc
    ELSE LET l == acc.data[i]
             r == blocks[i]
             k == count_ones(BitAnd(l, r))
         IN  sub_zip(Acc([acc.data EXCEPT ![i] = BitAnd(l, BitNot(r))],
                         acc.len - k,
                         Fault(acc.fault, SubFault(acc.len, k))),
                     blocks, i + 1)

sub_assign(s, blocks) ==
    LET a == sub_zip(Acc(s.blocks.data, s.len, "none"), blocks, 1)
    IN  Res(IdSet([s.blocks EXCEPT !.data = a.data], a.len), NoRet, a.fault)

\* The blocks a borrowed set hands to an operation: self.blocks.iter().
IdSet_blocks(s) == s.blocks.data

inplace_union(s, other) == bitor_assign(s, IdSet_blocks(other))

inplace_intersection(s, other) == bitand_assign(s, IdSet_blocks(other))

inplace_difference(s, other) == sub_assign(s, IdSet_blocks(other))

inplace_symmetric_difference(s, other) == bitxor_assign(s, IdSet_blocks(other))


\* ------------------------------------------------------------------------
\* Block iterators.  An iterator state is a record:
\*   [tag |-> "Blocks", rest]        store::Iter, and store::IntoIter of a Vec
\*   [tag |-> "IntoStack", data, idx]  store::IntoIter of the inline array
\*   [tag |-> "Intersection" | "Union" | "SymmetricDifference" | "Difference",
\*    left, right]                   the combinators
\* next() gives [item, it]: item is <<>> (None) or <<block>> (Some(block)).

Blocks(data) == [tag |-> "Blocks", rest |-> data]

IntoStack(data, idx) == [tag |-> "IntoStack", data |-> data, idx |-> idx]

\* IntoIterator for BlockStore
BlockStore_into_iter(st) ==
    IF st.kind = "Stack" THEN IntoStack(st.data, 0) ELSE Blocks(st.data)

Comb(tag, left, right) == [tag |-> tag, left |-> left, right |-> right]

Step(item, it) == [item |-> item, it |-> it]

\* Option::unwrap_or(0)
unwrap_or_zero(item) == IF item = None THEN ZERO ELSE item[1]

\* block_next, with Union and SymmetricDifference ending at the shorter side.
RECURSIVE block_next_zip(_)
block_next_zip(it) ==
    IF it.tag = "Blocks"
    THEN IF it.rest = <<>> THEN Step(None, it)
         ELSE Step(Some(Head(it.rest)), Blocks(Tail(it.rest)))
    ELSE IF it.tag = "IntoStack"
    THEN IF it.idx = SIZE THEN Step(None, it)
         ELSE Step(Some(it.data[it.idx + 1]), IntoStack(it.data, it.idx + 1))
    ELSE LET l    == block_next_zip(it.left)
             r    == block_next_zip(it.right)
             it2  == Comb(it.tag, l.it, r.it)
         IN  IF l.item = None THEN Step(None, it2)
             ELSE IF r.item = None
             THEN IF it.tag = "Difference" THEN Step(l.item, it2) ELSE Step(None, it2)
             ELSE Step(Some(IF it.tag = "Intersection" THEN BitAnd(l.item[1], r.item[1])
                            ELSE IF it.tag = "Union" THEN BitOr(l.item[1], r.item[1])
                            ELSE IF it.tag = "Difference"
                            THEN BitAnd(l.item[1], BitNot(r.item[1]))
                            ELSE BitXor(l.item[1], r.item[1])), it2)

RECURSIVE block_next(_)
block_next(it) ==
    IF it.tag = "Blocks"
    THEN IF it.rest = <<>> THEN Step(None, it)
         ELSE Step(Some(Head(it.rest)), Blocks(Tail(it.rest)))
    ELSE IF it.tag = "IntoStack"
    THEN IF it.idx = SIZE THEN Step(None, it)
         ELSE Step(Some(it.data[it.idx + 1]), IntoStack(it.data, it.idx + 1))
    ELSE IF it.tag = "Difference"
    THEN LET l == block_next(it.left)
         IN  IF l.item = None THEN Step(None, Comb(it.tag, l.it, it.right))
             ELSE LET r == block_next(it.right)
                  IN  Step(Some(BitAnd(l.item[1], BitNot(unwrap_or_zero(r.item)))),
                           Comb(it.tag, l.it, r.it))
    ELSE LET l    == block_next(it.left)
             r    == block_next(it.right)
             it2  == Comb(it.tag, l.it, r.it)
         IN  IF it.tag = "Intersection"
             THEN IF l.item # None /\ r.item # None
                  THEN Step(Some(BitAnd(l.item[1], r.item[1])), it2)
                  ELSE Step(None, it2)
             ELSE IF l.item # None /\ r.item # None
             THEN Step(Some(IF it.tag = "Union"
                            THEN BitOr(l.item[1], r.item[1])
                            ELSE BitXor(l.item[1], r.item[1])), it2)
             ELSE IF l.item # None THEN Step(l.item, it2)
             ELSE IF r.item # None THEN Step(r.item, it2)
             ELSE Step(None, it2)

\* len, every combinator reporting what its left side reports.
RECURSIVE block_len_left(_)
block_len_left(it) ==
    IF it.tag = "Blocks" THEN Len(it.rest)
    ELSE IF it.tag = "IntoStack" THEN SIZE - it.idx
    ELSE block_len_left(it.left)

\* ExactSizeIterator::len
RECURSIVE block_len(_)
block_len(it) ==
    IF it.tag = "Blocks" THEN Len(it.rest)
    ELSE IF it.tag = "IntoStack" THEN SIZE - it.idx
    ELSE IF it.tag = "Intersection"
    THEN Min({block_len(it.left), block_len(it.right)})
    ELSE IF it.tag = "Difference" THEN block_len(it.left)
    ELSE Max({block_len(it.left), block_len(it.right)})

\* The views of a set with another block iterator (&, |, ^, - on &IdSet) and
\* of a view with another (the same operators on BlockIter).
intersection(l, r) == Comb("Intersection", l, r)

union(l, r) == Comb("Union", l, r)

symmetric_difference(l, r) == Comb("SymmetricDifference", l, r)

difference(l, r) == Comb("Difference", l, r)

\* &IdSet as IntoBlockIter
into_block_iter(s) == Blocks(s.blocks.data)

\* ------------------------------------------------------------------------
\* IdIter { blocks, word, idx }: the ids of a block iterator

IdIter(it, word, idx) == [blocks |-> it, word |-> word, idx |-> idx]

IdIter_new(it) ==
    LET first == block_next(it)
    IN  IdIter(first.it, unwrap_or_zero(first.item), 0)

\* skip_zero, without the advance of idx past a zero word.
RECURSIVE skip_zero_stuck(_)
skip_zero_stuck(st) ==
    IF st.word # ZERO THEN [st |-> st, done |-> FALSE]
    ELSE LET n == block_next(st.blocks)
         IN  IF n.item = None
             THEN [st |-> IdIter(n.it, st.word, st.idx), done |-> TRUE]
             ELSE skip_zero_stuck(IdIter(n.it, n.item[1],
                                         IF n.item[1] = ZERO THEN st.idx
                                         ELSE st.idx + BITS))

\* while self.word == 0 { .. }: the state at the loop's exit, and whether the
\* exit was the return of None.
RECURSIVE skip_zero(_)
skip_zero(st) ==
    IF st.word # ZERO THEN [st |-> st, done |-> FALSE]
    ELSE LET n == block_next(st.blocks)
         IN  IF n.item = None
             THEN [st |-> IdIter(n.it, st.word, st.idx), done |-> TRUE]
             ELSE skip_zero(IdIter(n.it, n.item[1], st.idx + BITS))

IdIter_next(st) ==
    LET s == skip_zero(st)
    IN  IF s.done THEN Step(None, s.st)
        ELSE LET word == s.st.word
                 bit  == WrapDec(BitAnd(word, WrapInc(BitNot(word))))
             IN  Step(Some(s.st.idx + count_ones(bit)),
                      IdIter(s.st.blocks, BitAnd(word, WrapDec(word)), s.st.idx))

\* Iter / IntoIter { inner: IdIter, len }: the iterators of a set.
SetIter(inner, n) == [inner |-> inner, len |-> n]

iter(s) == SetIter(IdIter_new(Blocks(s.blocks.data)), s.len)

into_iter(s) == SetIter(IdIter_new(BlockStore_into_iter(s.blocks)), s.len)

\* Iter_next, with self.len -= 1 whatever the inner iterator returned.
Iter_next_always(it) ==
    LET n == IdIter_next(it.inner)
    IN  [item |-> n.item, it |-> SetIter(n.it, it.len - 1),
         fault |-> SubFault(it.len, 1)]

\* next(): [item, it, fault], the fault that of self.len -= 1.
Iter_next(it) ==
    LET n == IdIter_next(it.inner)
    IN  IF n.item = None
        THEN [item |-> None, it |-> SetIter(n.it, it.len), fault |-> "none"]
        ELSE [item |-> n.item, it |-> SetIter(n.it, it.len - 1),
              fault |-> SubFault(it.len, 1)]

\* The ids an IdIter yields until it returns None (Iterator::collect into a
\* Vec): next() is called again and again.  The calls are grouped by block,
\* pop_ids running next() while the current word is not zero.
RECURSIVE pop_ids(_)
pop_ids(st) ==
    IF st.word = ZERO THEN [ids |-> <<>>, st |-> st]
    ELSE LET n    == IdIter_next(st)
             more == pop_ids(n.it)
         IN  [ids |-> <<n.item[1]>> \o more.ids, st |-> more.st]

RECURSIVE collect_ids(_)

\* The ids so far, and the result n of the next() after them.
collect_more(ids, n) ==
    IF n.item = None THEN ids
    ELSE ids \o <<n.item[1]>> \o collect_ids(n.it)

\* The ids p of the current block, then the next() that leaves the block.
collect_rest(p) == collect_more(p.ids, IdIter_next(p.st))

collect_ids(st) == collect_rest(pop_ids(st))

\* BlockIter::into_iter().collect::<Vec<Id>>()
view_ids(it) == collect_ids(IdIter_new(it))

\* Iterator::count
count(st) == Len(collect_ids(st))

\* FromIterator<Id> for IdSet / Extend<Id>: insert every id of the sequence.
RECURSIVE extend(_, _)
extend(s, ids) ==
    IF ids = <<>> THEN s
    ELSE extend(insert(s, Head(ids)).set, Tail(ids))

from_iter(ids) == extend(IdSet_new, ids)

\* BlockIter::collect::<IdSet>()
collect_set(it) == from_iter(view_ids(it))

\* ------------------------------------------------------------------------
\* Relations

is_disjoint(s, other) ==
    /\ IdSet_len(s) + IdSet_len(other) < Max({capacity(s), capacity(other)})
    /\ count(IdIter_new(intersection(into_block_iter(s), into_block_iter(other)))) = 0

\* is_subset, by the lengths alone.
is_subset_by_len(s, other) == IdSet_len(s) <= IdSet_len(other)

is_subset(s, other) ==
    /\ IdSet_len(s) <= IdSet_len(other)
    /\ count(IdIter_new(difference(into_block_iter(s), into_block_iter(other)))) = 0

is_superset(s, other) == ~ is_subset(other, s)

\* lhs.all(|block| block == 0)
all_zero(data) == \A i \in 1 .. Len(data) : data[i] = ZERO

\* eq_loop, without the all-zero tail of the longer side.
eq_loop_strict(lhs, rhs) == lhs = rhs

RECURSIVE eq_loop(_, _)
eq_loop(lhs, rhs) ==
    IF lhs # <<>> /\ rhs # <<>>
    THEN IF Head(lhs) # Head(rhs) THEN FALSE
         ELSE eq_loop(Tail(lhs), Tail(rhs))
    ELSE IF lhs = <<>> /\ rhs = <<>> THEN TRUE
    ELSE IF lhs # <<>> THEN all_zero(lhs)
    ELSE all_zero(rhs)

eq(s, other) ==
    IF s.len # other.len THEN FALSE
    ELSE eq_loop(s.blocks.data, other.blocks.data)


\* ------------------------------------------------------------------------
\* The state machine: two sets a and b.  Every operation is called on a, with
\* b as the other operand of the binary ones; b is built by the constructors
\* and clear, and is the other set of the relations.

VARIABLES
    a,      \* an IdSet
    b,      \* another IdSet
    op,     \* the last operation: [name, on, arg, was], was the target's kind before
    ret,    \* the value it returned
    fault,  \* "none", or the failure it ran into
    input,  \* collect-and-iterate: the id sequence collected
    src,    \* the part of it not yet inserted
    coll,   \* the set collected so far
    it,     \* the iterator over the collected set
    out,    \* the ids the iterator has yielded
    pc      \* "idle", "collect", "iter" or "done"

svars == <<a, b, op, ret, fault>>

cvars == <<input, src, coll, it, out, pc>>

vars == <<a, b, op, ret, fault, input, src, coll, it, out, pc>>

\* The ids the operations are called with: one in the first block, one in the
\* second, and the first id of block MaxWord, past the inline blocks.
Ids == {0, 33, BITS * MaxWord}

\* Argument of with_capacity and reserve: the least that asks for SIZE blocks.
CapArgs == {BITS * (SIZE - 1) + 1}

\* Argument of new_filled: two ids.
FillArgs == {2}

\* Arguments of from_bytes: one zero block; SIZE + 1 blocks, all but the first
\* zero; MaxWord + 1 blocks holding the ids 0, 5, 33 and BITS * MaxWord.
ByteArgs ==
    {<<ZERO>>,
     <<{0}>> \o Zeros(SIZE),
     <<{0, 5}, {1}>> \o Zeros(MaxWord - 2) \o <<{0}>>}

\* Predicates of retain.
KeepArgs == {"even", "high"}

Self(t) == IF t = "a" THEN a ELSE b

Other(t) == IF t = "a" THEN b ELSE a

Op(name, t, arg) ==
    [name |-> name, on |-> t, arg |-> arg, was |-> Self(t).blocks.kind]

\* The call's result becomes the target's state; the operand is left alone.
Becomes(t, r) ==
    /\ IF t = "a" THEN a' = r.set /\ b' = b ELSE b' = r.set /\ a' = a
    /\ ret' = r.ret
    /\ fault' = r.fault

\* No call yet: both sets as IdSet::new() leaves them.
InitSets ==
    /\ a = IdSet_new
    /\ b = IdSet_new
    /\ op = [name |-> "new", on |-> "a", arg |-> 0, was |-> "Stack"]
    /\ ret = NoRet
    /\ fault = "none"

\* Nothing collected, no iterator.
InitIdle ==
    /\ input = <<>>
    /\ src = <<>>
    /\ coll = IdSet_new
    /\ it = iter(IdSet_new)
    /\ out = <<>>
    /\ pc = "idle"

Init == InitSets /\ InitIdle

\* A failed call ends the run.
Running == fault = "none"

\* A call of `name` on t.
Call(name, t, arg, r) ==
    /\ op' = Op(name, t, arg)
    /\ Becomes(t, r)
    /\ UNCHANGED cvars

New(t) ==
    /\ Running
    /\ Call("new", t, 0, Res(IdSet_new, NoRet, "none"))

WithCapacity(t) ==
    /\ Running
    /\ \E n \in CapArgs :
           Call("with_capacity", t, n, Res(with_capacity(n), NoRet, "none"))

NewFilled(t) ==
    /\ Running
    /\ \E n \in FillArgs :
           Call("new_filled", t, n, Res(new_filled(n), NoRet, "none"))

FromBytes(t) ==
    /\ Running
    /\ \E bytes \in ByteArgs :
           Call("from_bytes", t, Len(bytes), Res(from_bytes(bytes), NoRet, "none"))

Insert(t) ==
    /\ Running
    /\ \E id \in Ids :
           Call("insert", t, id, insert(Self(t), id))

Remove(t) ==
    /\ Running
    /\ \E id \in Ids :
           Call("remove", t, id, remove(Self(t), id))

Retain(t) ==
    /\ Running
    /\ \E keep \in KeepArgs :
           Call("retain", t, keep, retain(Self(t), keep))

Clear(t) ==
    /\ Running
    /\ Call("clear", t, 0, Res(clear(Self(t)), NoRet, "none"))

Reserve(t) ==
    /\ Running
    /\ \E n \in CapArgs :
           Call("reserve", t, n, Res(reserve(Self(t), n), NoRet, "none"))

ShrinkToFit(t) ==
    /\ Running
    /\ Call("shrink_to_fit", t, 0, Res(shrink_to_fit(Self(t)), NoRet, "none"))

InplaceUnion(t) ==
    /\ Running
    /\ Call("inplace_union", t, 0, inplace_union(Self(t), Other(t)))

InplaceIntersection(t) ==
    /\ Running
    /\ Call("inplace_intersection", t, 0, inplace_intersection(Self(t), Other(t)))

InplaceDifference(t) ==
    /\ Running
    /\ Call("inplace_difference", t, 0, inplace_difference(Self(t), Other(t)))

InplaceSymmetricDifference(t) ==
    /\ Running
    /\ Call("inplace_symmetric_difference", t, 0, inplace_symmetric_difference(Self(t), Other(t)))

\* let t = other.clone()
Clone(t) ==
    /\ Running
    /\ Call("clone", t, 0, Res(clone(Other(t)), NoRet, "none"))

\* ---------------------------------------------------------------------
\* Collect and iterate: ids.into_iter().collect::<IdSet>(), then a walk of
\* set.iter() or set.into_iter(), one next() per step.

CollectIds == {0, BITS - 1, BITS, BITS * SIZE - 1, BITS * MaxWord}

RECURSIVE SeqsUpTo(_, _)
SeqsUpTo(S, n) ==
    IF n = 0 THEN {<<>>}
    ELSE LET shorter == SeqsUpTo(S, n - 1)
         IN  shorter \cup {Append(q, x) : q \in {r \in shorter : Len(r) = n - 1}, x \in S}

InitCollect ==
    /\ InitSets
    /\ input \in SeqsUpTo(CollectIds, MaxCollect)
    /\ src = input
    /\ coll = IdSet_new
    /\ it = iter(IdSet_new)
    /\ out = <<>>
    /\ pc = "collect"

\* for id in iter { set.insert(id); }
CollectInsert ==
    /\ pc = "collect"
    /\ src # <<>>
    /\ coll' = insert(coll, Head(src)).set
    /\ src' = Tail(src)
    /\ UNCHANGED <<input, it, out, pc, svars>>

\* set.iter()
StartIter ==
    /\ pc = "collect"
    /\ src = <<>>
    /\ it' = iter(coll)
    /\ pc' = "iter"
    /\ UNCHANGED <<input, src, coll, out, svars>>

\* set.into_iter()
StartIntoIter ==
    /\ pc = "collect"
    /\ src = <<>>
    /\ it' = into_iter(coll)
    /\ pc' = "iter"
    /\ UNCHANGED <<input, src, coll, out, svars>>

\* One next() of the iterator: an id is appended to out, None ends the walk.
IterNext ==
    /\ pc = "iter"
    /\ fault = "none"
    /\ LET n == Iter_next(it)
       IN  /\ it' = n.it
           /\ fault' = n.fault
           /\ out' = IF n.item = None THEN out ELSE Append(out, n.item[1])
           /\ pc' = IF n.item = None THEN "done" ELSE "iter"
    /\ UNCHANGED <<input, src, coll, a, b, op, ret>>

NextCollect ==
    \/ CollectInsert
    \/ StartIter
    \/ StartIntoIter
    \/ IterNext

SpecCollect == InitCollect /\ [][NextCollect]_vars

\* ---------------------------------------------------------------------
\* Fill and iterate: IdSet::new_filled(n), then a walk of the set as above.
\* input holds n.

FilledArgs ==
    {0, 1, BITS - 1, BITS, BITS + 1, 2 * BITS,
     BITS * (SIZE - 1) - 1, BITS * (SIZE - 1), BITS * (SIZE - 1) + 1,
     BITS * SIZE - 1, BITS * SIZE, BITS * SIZE + 1, BITS * MaxWord}

InitFilled ==
    /\ InitSets
    /\ input = <<>>
    /\ src = <<>>
    /\ coll = IdSet_new
    /\ it = iter(IdSet_new)
    /\ out = <<>>
    /\ pc = "fill"

\* let set = IdSet::new_filled(n)
Fill ==
    /\ pc = "fill"
    /\ \E n \in FilledArgs :
           /\ coll' = new_filled(n)
           /\ input' = <<n>>
    /\ pc' = "collect"
    /\ UNCHANGED <<src, it, out, svars>>

NextFilled ==
    \/ Fill
    \/ StartIter
    \/ StartIntoIter
    \/ IterNext

SpecFilled == InitFilled /\ [][NextFilled]_vars

\* ---------------------------------------------------------------------
\* The same calls on two sets: a starts as IdSet::new(), inline, and b as
\* IdSet::with_capacity(n), n large enough for the heap.  Every step is one
\* call made on both; ret holds the two values returned.

TwinCaps == {BITS * (SIZE - 1) + 1, BITS * (MaxWord + 1)}

\* The other operand of the in-place operations.
TwinOperands ==
    { clone(with_capacity(BITS * SIZE + 1)),
      extend(with_capacity(BITS * SIZE + 1), <<0>>),
      from_bytes(<<{0, 5}, {1}>>),
      from_bytes(<<{0, 5}, {1}>> \o Zeros(MaxWord - 2) \o <<{0}>>) }

InitTwin ==
    /\ a = IdSet_new
    /\ b \in {with_capacity(n) : n \in TwinCaps}
    /\ op = [name |-> "new", on |-> "both", arg |-> 0, was |-> "Stack"]
    /\ ret = <<NoRet, NoRet>>
    /\ fault = "none"
    /\ InitIdle

\* ra and rb are the effects of the call `name` on a and on b.
Twin(name, arg, ra, rb) ==
    /\ op' = [name |-> name, on |-> "both", arg |-> arg, was |-> a.blocks.kind]
    /\ a' = ra.set
    /\ b' = rb.set
    /\ ret' = <<ra.ret, rb.ret>>
    /\ fault' = Fault(ra.fault, rb.fault)
    /\ UNCHANGED cvars

TwinInsert ==
    /\ Running
    /\ \E id \in Ids : Twin("insert", id, insert(a, id), insert(b, id))

TwinRemove ==
    /\ Running
    /\ \E id \in Ids : Twin("remove", id, remove(a, id), remove(b, id))

TwinContains ==
    /\ Running
    /\ \E id \in Ids :
           Twin("contains", id, Res(a, contains(a, id), "none"),
                Res(b, contains(b, id), "none"))

TwinRetain ==
    /\ Running
    /\ \E keep \in KeepArgs : Twin("retain", keep, retain(a, keep), retain(b, keep))

TwinClear ==
    /\ Running
    /\ Twin("clear", 0, Res(clear(a), NoRet, "none"), Res(clear(b), NoRet, "none"))

TwinInplaceUnion ==
    /\ Running
    /\ \E o \in TwinOperands :
           Twin("inplace_union", o, inplace_union(a, o), inplace_union(b, o))

TwinInplaceIntersection ==
    /\ Running
    /\ \E o \in TwinOperands :
           Twin("inplace_intersection", o, inplace_intersection(a, o),
                inplace_intersection(b, o))

TwinInplaceDifference ==
    /\ Running
    /\ \E o \in TwinOperands :
           Twin("inplace_difference", o, inplace_difference(a, o),
                inplace_difference(b, o))

TwinInplaceSymmetricDifference ==
    /\ Running
    /\ \E o \in TwinOperands :
           Twin("inplace_symmetric_difference", o,
                inplace_symmetric_difference(a, o),
                inplace_symmetric_difference(b, o))

NextTwin ==
    \/ TwinInsert
    \/ TwinRemove
    \/ TwinContains
    \/ TwinRetain
    \/ TwinClear
    \/ TwinInplaceUnion
    \/ TwinInplaceIntersection
    \/ TwinInplaceDifference
    \/ TwinInplaceSymmetricDifference

SpecTwin == InitTwin /\ [][NextTwin]_vars

Next ==
    \/ New("a")
    \/ WithCapacity("a")
    \/ NewFilled("a")
    \/ FromBytes("a")
    \/ Insert("a")
    \/ Remove("a")
    \/ Retain("a")
    \/ Clear("a")
    \/ Reserve("a")
    \/ ShrinkToFit("a")
    \/ InplaceUnion("a")
    \/ InplaceIntersection("a")
    \/ InplaceDifference("a")
    \/ InplaceSymmetricDifference("a")
    \/ Clone("a")
    \/ New("b")
    \/ WithCapacity("b")
    \/ NewFilled("b")
    \/ FromBytes("b")
    \/ Clear("b")

Spec == Init /\ [][Next]_vars

\* ---------------------------------------------------------------------
\* Views and relations of two sets.  Both sets are built by calls: a
\* constructor, then up to MaxBuild inserts, then at most one remove; one
\* view or relation is then evaluated on the pair.

QueryBases ==
    { IdSet_new,
      with_capacity(BITS * SIZE + 1),
      clone(with_capacity(BITS * SIZE + 1)),
      from_bytes(<<ZERO>>),
      from_bytes(<<{0, 5}, {1}>> \o Zeros(MaxWord - 2) \o <<{0}>>),
      new_filled(BITS * SIZE) }

Built(base, ins, rem) ==
    LET s == extend(base, ins)
    IN  IF rem = None THEN s ELSE remove(s, rem[1]).set

QuerySets ==
    { Built(base, ins, rem) :
        base \in QueryBases,
        ins \in SeqsUpTo(Ids, MaxBuild),
        rem \in {None} \cup {Some(x) : x \in {0, BITS * MaxWord}} }

InitQuery ==
    /\ a \in QuerySets
    /\ b \in QuerySets
    /\ op = [name |-> "new", on |-> "a", arg |-> 0, was |-> a.blocks.kind]
    /\ ret = NoRet
    /\ fault = "none"
    /\ InitIdle

\* A query of t: it returns v and leaves both sets as they are.
Query(name, t, arg, v) == Call(name, t, arg, Res(Self(t), v, "none"))

\* The pair has not been queried yet: one view or relation a run.
Unqueried == op.name = "new"

\* The set named u.
SetOf(u) == IF u = "a" THEN a ELSE b

\* A third operand of a composed view.
ViewArgs == {<<1, BITS + 1>>, <<0, BITS * (MaxWord + 1)>>}

\* t.union(&other).into_iter().collect::<Vec<_>>(), and the like
ViewUnion(t) ==
    /\ Unqueried
    /\ Query("union", t, 0,
             view_ids(union(into_block_iter(Self(t)), into_block_iter(Other(t)))))

ViewIntersection(t) ==
    /\ Unqueried
    /\ Query("intersection", t, 0,
             view_ids(intersection(into_block_iter(Self(t)), into_block_iter(Other(t)))))

ViewDifference(t) ==
    /\ Unqueried
    /\ Query("difference", t, 0,
             view_ids(difference(into_block_iter(Self(t)), into_block_iter(Other(t)))))

ViewSymmetricDifference(t) ==
    /\ Unqueried
    /\ Query("symmetric_difference", t, 0,
             view_ids(symmetric_difference(into_block_iter(Self(t)),
                                           into_block_iter(Other(t)))))

\* t.intersection(&other).union(&c)
ViewIntersectionUnion(t) ==
    /\ Unqueried
    /\ \E ids \in ViewArgs :
           Query("intersection_union", t, ids,
                 view_ids(union(intersection(into_block_iter(Self(t)),
                                             into_block_iter(Other(t))),
                                into_block_iter(from_iter(ids)))))

\* c.difference(t.symmetric_difference(&other))
ViewDifferenceOfSymmetric(t) ==
    /\ Unqueried
    /\ \E ids \in ViewArgs :
           Query("difference_symmetric", t, ids,
                 view_ids(difference(into_block_iter(from_iter(ids)),
                                     symmetric_difference(into_block_iter(Self(t)),
                                                          into_block_iter(Other(t))))))

\* t.is_subset(&u), and the like, u either set
IsSubset(t) ==
    /\ Unqueried
    /\ \E u \in {"a", "b"} : Query("is_subset", t, u, is_subset(Self(t), SetOf(u)))

IsSuperset(t) ==
    /\ Unqueried
    /\ \E u \in {"a", "b"} : Query("is_superset", t, u, is_superset(Self(t), SetOf(u)))

IsDisjoint(t) ==
    /\ Unqueried
    /\ \E u \in {"a", "b"} : Query("is_disjoint", t, u, is_disjoint(Self(t), SetOf(u)))

\* t == u
Eq(t) ==
    /\ Unqueried
    /\ \E u \in {"a", "b"} : Query("eq", t, u, eq(Self(t), SetOf(u)))

NextQuery ==
    \/ ViewUnion("a")
    \/ ViewIntersection("a")
    \/ ViewDifference("a")
    \/ ViewSymmetricDifference("a")
    \/ ViewIntersectionUnion("a")
    \/ ViewDifferenceOfSymmetric("a")
    \/ IsSubset("a")
    \/ IsSuperset("a")
    \/ IsDisjoint("a")
    \/ Eq("a")

SpecQuery == InitQuery /\ [][NextQuery]_vars



\* ------------------------------------------------------------------------
\* Properties

\* The ids a set holds: bit i of block w (counted from 0) is id BITS*w + i.
Elems(s) ==
    UNION {{BITS * (w - 1) + bit : bit \in s.blocks.data[w]} :
           w \in 1 .. Len(s.blocks.data)}

\* The target of the last operation, before and after it.
Pre(t) == IF t = "a" THEN a ELSE b

Post(t) == IF t = "a" THEN a' ELSE b'

\* Ids the queries are asked about: those of the operations, and one past
\* every block any set of the model stores.
FarId == BITS * (MaxWord + 2) + 5

QueryIds == Ids \cup {1, 5, FarId}

\* C1: after every operation the cached count len of either set is the number
\* of one bits of its stored blocks, and no decrement of it went below zero.
C1_LenIsPopcount ==
    /\ a.len = Cardinality(Elems(a))
    /\ b.len = Cardinality(Elems(b))
    /\ fault = "none"

\* C1 witness: an in-place intersection dropped blocks of a heap-backed a
\* (b stores fewer blocks) and left it with an id.
C1_Witness ==
    /\ op.name = "inplace_intersection"
    /\ op.was = "Heap"
    /\ Len(b.blocks.data) < Len(a.blocks.data) + 1
    /\ a.len >= 1
    /\ b.len > a.len

\* C2: insert(x) returns true iff x was absent; afterwards x is contained, the
\* ids are the old ones and x, len grew by one iff true was returned, and a
\* second insert(x) returns false and leaves len as it is.
C2_Insert ==
    [][op'.name = "insert" =>
        LET t   == op'.on
            x   == op'.arg
            two == insert(Post(t), x)
        IN  /\ fault' = "none"
            /\ ret' = (x \notin Elems(Pre(t)))
            /\ contains(Post(t), x)
            /\ Elems(Post(t)) = Elems(Pre(t)) \cup {x}
            /\ Post(t).len = Pre(t).len + (IF ret' THEN 1 ELSE 0)
            /\ two.ret = FALSE
            /\ two.set.len = Post(t).len
            /\ two.fault = "none"]_vars

\* C2 witness: an insert into an inline set that held an id returned true and
\* moved the set to the heap, with a zero block below the new one.
C2_Witness ==
    /\ op.name = "insert"
    /\ op.on = "a"
    /\ op.was = "Stack"
    /\ ret = TRUE
    /\ a.blocks.kind = "Heap"
    /\ a.len >= 2
    /\ a.blocks.data[op.arg \div BITS] = ZERO

\* C3: remove(x) never fails and returns true iff x was present; afterwards x
\* is not contained and the ids are the old ones without x; when it returns
\* false the set is as it was, storage included.  contains(x) is x's
\* membership for every id, in or out of the stored range.
C3_RemoveContains ==
    [][/\ op'.name = "remove" =>
            LET t == op'.on
                x == op'.arg
            IN  /\ fault' = "none"
                /\ ret' = (x \in Elems(Pre(t)))
                /\ ~ contains(Post(t), x)
                /\ Elems(Post(t)) = Elems(Pre(t)) \ {x}
                /\ Post(t).len = Pre(t).len - (IF ret' THEN 1 ELSE 0)
                /\ (~ ret') => Post(t) = Pre(t)
       /\ \A held \in {Elems(Post(op'.on))} :
              \A x \in QueryIds : contains(Post(op'.on), x) = (x \in held)]_vars

\* C3 witness: a remove of an id past the stored blocks returned false, on a
\* set that holds ids.
C3_Witness ==
    /\ op.name = "remove"
    /\ ret = FALSE
    /\ op.arg \div BITS >= Len(a.blocks.data)
    /\ a.len >= 1

\* The ids of S in increasing order.
RECURSIVE Ascending(_)
Ascending(S) ==
    IF S = {} THEN <<>>
    ELSE <<Min(S)>> \o Ascending(S \ {Min(S)})

Range(q) == {q[i] : i \in 1..Len(q)}

\* C4: a set collected from a sequence of ids, walked by iter() or
\* into_iter(), yields the distinct ids of the sequence in strictly
\* increasing order and then ends: at every point of the walk the ids
\* yielded so far are a prefix of that order, and once next() has returned
\* None they are all of it.
C4_CollectIterate ==
    LET want == Ascending(Range(input))
    IN  /\ fault = "none"
        /\ pc \in {"iter", "done"} =>
               /\ Len(out) <= Len(want)
               /\ out = Take(want, Len(out))
               /\ it.len = Len(want) - Len(out)
        /\ pc = "done" => out = want

\* An unsorted input with a repeated id and one past the inline range has
\* been walked to the end by the consuming iterator of a heap-stored set.
C4_Witness ==
    /\ pc = "done"
    /\ Len(input) = MaxCollect
    /\ Len(out) = MaxCollect - 1
    /\ Len(out) >= 2
    /\ input[1] > input[2]
    /\ coll.blocks.kind = "Heap"
    /\ it.inner.blocks.tag = "Blocks"

\* ret lists exactly the ids of S, in strictly increasing order.
YieldsAscending(S) ==
    /\ Range(ret) = S
    /\ \A i \in 1 .. Len(ret) - 1 : ret[i] < ret[i + 1]

\* C5: the ids a view of a and b yields are, in ascending order, those of
\* A or B (union), A and B (intersection), A and not B (difference), exactly
\* one of A, B (symmetric_difference); a view of views yields those of the
\* composed expression: (A and B) or C, and C without (exactly one of A, B).
C5_Views ==
    LET A == Elems(a)
        B == Elems(b)
    IN  /\ op.name = "union" => YieldsAscending(A \cup B)
        /\ op.name = "intersection" => YieldsAscending(A \cap B)
        /\ op.name = "difference" => YieldsAscending(A \ B)
        /\ op.name = "symmetric_difference" => YieldsAscending((A \ B) \cup (B \ A))
        /\ op.name = "intersection_union" =>
               YieldsAscending((A \cap B) \cup Range(op.arg))
        /\ op.name = "difference_symmetric" =>
               YieldsAscending(Range(op.arg) \ ((A \ B) \cup (B \ A)))

\* The composed view (a & b) | c of a heap-stored a, a shorter inline b that
\* shares ids with it, and a c that adds ids of its own.
C5_Witness ==
    /\ op.name = "intersection_union"
    /\ a.blocks.kind = "Heap"
    /\ b.blocks.kind = "Stack"
    /\ Len(b.blocks.data) < Len(a.blocks.data)
    /\ Elems(a) \cap Elems(b) # {}
    /\ Elems(a) \ Elems(b) # {}
    /\ Len(ret) = Cardinality(Elems(a) \cap Elems(b)) + Len(op.arg)

\* The view an in-place operation corresponds to, over the sets s and other.
ViewOf(name, s, other) ==
    IF name = "inplace_union"
    THEN union(into_block_iter(s), into_block_iter(other))
    ELSE IF name = "inplace_intersection"
    THEN intersection(into_block_iter(s), into_block_iter(other))
    ELSE IF name = "inplace_difference"
    THEN difference(into_block_iter(s), into_block_iter(other))
    ELSE symmetric_difference(into_block_iter(s), into_block_iter(other))

InplaceNames ==
    {"inplace_union", "inplace_intersection", "inplace_difference",
     "inplace_symmetric_difference"}

\* C6: after an in-place union, intersection, difference or symmetric
\* difference of a with b, a has the elements and the len of the set collected
\* from the corresponding view of the original a and b, compares equal to it,
\* and b is unchanged.
C6_InplaceMatchesView ==
    [][op'.name \in InplaceNames =>
         \A want \in {collect_set(ViewOf(op'.name, a, b))} :
             /\ fault' = "none"
             /\ Elems(a') = Elems(want)
             /\ a'.len = want.len
             /\ eq(a', want)
             /\ b' = b]_vars

\* An in-place symmetric difference with a b of more stored words has moved a
\* to the heap, dropping the shared ids and adding those of b alone.
C6_Witness ==
    /\ op.name = "inplace_symmetric_difference"
    /\ op.was = "Stack"
    /\ a.blocks.kind = "Heap"
    /\ Elems(b) \ Elems(a) # {}
    /\ Elems(a) \ Elems(b) # {}
    /\ Elems(a) \cap Elems(b) # {}
    /\ Len(a.blocks.data) = Len(b.blocks.data)
    /\ Len(a.blocks.data) > SIZE

\* C7: a.is_superset(&u) returns true exactly when every element of u is an
\* element of a; so a.is_superset(&a) is true, and so is a.is_superset of an
\* empty set.
C7_IsSuperset ==
    op.name = "is_superset" => ret = (Elems(SetOf(op.arg)) \subseteq Elems(a))

\* C8: a.is_disjoint(&u) returns true exactly when no id is an element of
\* both, whatever the lens and the capacities of the two sets.
C8_IsDisjoint ==
    op.name = "is_disjoint" => ret = (Elems(a) \cap Elems(SetOf(op.arg)) = {})

\* C9: a.is_subset(&u) returns true exactly when every element of a is an
\* element of u; the empty set is a subset of every set.
C9_IsSubset ==
    op.name = "is_subset" =>
        /\ ret = (Elems(a) \subseteq Elems(SetOf(op.arg)))
        /\ Elems(a) = {} => ret

\* a, not empty and stored on the heap, is found to be a subset of an
\* inline b of more elements and another number of stored words.
C9_Witness ==
    /\ op.name = "is_subset"
    /\ op.arg = "b"
    /\ ret = TRUE
    /\ a.len >= 1
    /\ a.len < b.len
    /\ a.blocks.kind = "Heap"
    /\ b.blocks.kind = "Stack"
    /\ Len(a.blocks.data) # Len(b.blocks.data)

\* C10: a == u exactly when a and u hold the same ids, whatever all-zero
\* words either stores at its end and whether either is inline or on the
\* heap; a == a; and u == a gives the same answer as a == u.
C10_Eq ==
    op.name = "eq" =>
        LET o == SetOf(op.arg)
        IN  /\ ret = (Elems(a) = Elems(o))
            /\ op.arg = "a" => ret
            /\ eq(o, a) = ret

\* Two sets of the same ids compare equal, one on the heap and one inline,
\* with different numbers of stored words.
C10_Witness ==
    /\ op.name = "eq"
    /\ op.arg = "b"
    /\ ret = TRUE
    /\ a.len >= 1
    /\ a.blocks.kind # b.blocks.kind
    /\ Len(a.blocks.data) # Len(b.blocks.data)

\* C11: after retain(pred) the set holds exactly the former elements pred
\* accepts and len is their count; pred was called once for each element
\* present at the call, in ascending order, and for no other id.
C11_Retain ==
    [][op'.name = "retain" =>
         \A before \in {Elems(Pre(op'.on))} :
             LET kept == {x \in before : Pred(op'.arg, x)}
             IN  /\ fault' = "none"
                 /\ Elems(Post(op'.on)) = kept
                 /\ Post(op'.on).len = Cardinality(kept)
                 /\ ret' = Ascending(before)]_vars

\* A retain on a heap-stored set called pred for three or more ids, one of
\* them past the inline range, kept some and dropped some.
C11_Witness ==
    /\ op.name = "retain"
    /\ a.blocks.kind = "Heap"
    /\ Len(ret) >= 3
    /\ a.len >= 1
    /\ a.len < Len(ret)
    /\ \E i \in 1 .. Len(ret) : ret[i] >= BITS * SIZE

\* C12: a clone equals the original (same elements, same len, == in both
\* orders) and the original is as it was; every later call on one of the
\* two sets leaves the other, and so its elements and its len, unchanged.
C12_Clone ==
    [][/\ op'.name = "clone" =>
            /\ Elems(a') = Elems(b)
            /\ a'.len = b.len
            /\ eq(a', b') /\ eq(b', a')
            /\ b' = b
       /\ (op'.on = "a" /\ op'.name # "clone") => b' = b
       /\ op'.on = "b" => a' = a]_vars

\* A heap-stored set holding ids in its first and last words has been cloned.
C12_Witness ==
    /\ op.name = "clone"
    /\ a.blocks.kind = "Heap"
    /\ b.blocks.kind = "Heap"
    /\ a.len >= 3
    /\ a.blocks.data[Len(a.blocks.data)] # ZERO
    /\ a.blocks.data[1] # ZERO

\* C13: new_filled(n) holds exactly the ids 0 .. n-1: contains(k) for every
\* k < n, not contains(n), len n, and a walk of it yields 0, 1, .., n-1 and
\* then ends.
C13_NewFilled ==
    pc # "fill" =>
        LET n == input[1]
        IN  /\ fault = "none"
            /\ coll.len = n
            /\ pc = "collect" =>
                   /\ \A k \in 0 .. n - 1 : contains(coll, k)
                   /\ ~ contains(coll, n)
                   /\ ~ contains(coll, n + BITS)
            /\ Len(out) <= n
            /\ \A i \in 1 .. Len(out) : out[i] = i - 1
            /\ pc = "done" => Len(out) = n

\* A filled set of a whole number of blocks, stored on the heap, has been
\* walked to its end.
C13_Witness ==
    /\ pc = "done"
    /\ input = <<BITS * SIZE>>
    /\ coll.blocks.kind = "Heap"
    /\ Len(out) = BITS * SIZE
    /\ out[Len(out)] = BITS * SIZE - 1

\* C14: the same calls made on a set that started inline and on one that
\* started on the heap return the same values, and leave sets of the same
\* len and the same iteration sequence that compare equal, at every step.
C14_RepresentationHidden ==
    /\ fault = "none"
    /\ ret[1] = ret[2]
    /\ a.len = b.len
    /\ view_ids(into_block_iter(a)) = view_ids(into_block_iter(b))
    /\ eq(a, b)
    /\ eq(b, a)

\* After an in-place intersection with an operand of fewer stored words than
\* the inline array, the first set is still inline and the second on the
\* heap, cut to the operand's number of words, and both hold an id.
C14_Witness ==
    /\ op.name = "inplace_intersection"
    /\ a.blocks.kind = "Stack"
    /\ b.blocks.kind = "Heap"
    /\ Len(op.arg.blocks.data) < SIZE
    /\ Len(b.blocks.data) = Len(op.arg.blocks.data)
    /\ a.len >= 1

\* C15: the len an iterator from iter() or into_iter() reports is the number
\* of ids it will still yield: the set's len at the start, one less after
\* every id yielded, 0 exactly when next() returns None, and its decrement
\* never underflows.
C15_ExactLen ==
    pc \in {"iter", "done"} =>
        /\ fault = "none"
        /\ it.len >= 0
        /\ it.len = count(it.inner)
        /\ it.len + Len(out) = coll.len
        /\ (Iter_next(it).item = None) = (it.len = 0)
        /\ pc = "done" => it.len = 0

\* The consuming iterator of an inline set of MaxCollect ids has yielded
\* all but one of them.
C15_Witness ==
    /\ pc = "iter"
    /\ it.inner.blocks.tag = "IntoStack"
    /\ coll.len = MaxCollect
    /\ Len(out) = MaxCollect - 1
    /\ it.len = 1

\* ------------------------------------------------------------------------
\* capacity() of sets asked to hold ids up to usize::MAX: a with_capacity,
\* then a reserve, and capacity() after either.

\* Arguments of with_capacity and reserve, around the inline threshold and
\* around the point where the word count times BITS leaves usize.
CapacityArgs ==
    {0, 1, BITS * (SIZE - 1), BITS * (SIZE - 1) + 1, BITS * SIZE,
     usize_MAX \div 2, usize_MAX - 2 * BITS, usize_MAX - 2 * BITS + 1,
     usize_MAX - BITS, usize_MAX - BITS + 1, usize_MAX - BITS + 2,
     usize_MAX - 1, usize_MAX}

CapWithCapacity ==
    /\ op.name = "new"
    /\ \E n \in CapacityArgs :
           Call("with_capacity", "a", n, Res(with_capacity(n), NoRet, "none"))

CapReserve ==
    /\ op.name \in {"new", "with_capacity"}
    /\ \E n \in CapacityArgs :
           Call("reserve", "a", n, Res(reserve(a, n), NoRet, "none"))

CapInsert ==
    /\ op.name \in {"with_capacity", "reserve"}
    /\ \E id \in Ids : Call("insert", "a", id, insert(a, id))

Capacity ==
    /\ op.name # "capacity"
    /\ Call("capacity", "a", 0, Res(a, capacity(a), "none"))

NextCapacity == CapWithCapacity \/ CapReserve \/ CapInsert \/ Capacity

SpecCapacity == Init /\ [][NextCapacity]_vars

\* C16: capacity() is the storage's word capacity times BITS when that fits
\* usize and usize::MAX when it does not; it is never a wrapped, smaller
\* number.
C16_CapacitySaturates ==
    op.name = "capacity" =>
        LET words == BlockStore_capacity(a.blocks)
        IN  /\ fault = "none"
            /\ ret <= usize_MAX
            /\ ret >= words
            /\ words * BITS <= usize_MAX => ret = words * BITS
            /\ words * BITS > usize_MAX => ret = usize_MAX

\* capacity() of a heap set whose word count times BITS is beyond usize::MAX
\* by more than a block.
C16_Witness ==
    /\ op.name = "capacity"
    /\ a.blocks.kind = "Heap"
    /\ a.blocks.cap * BITS > usize_MAX + BITS
    /\ ret = usize_MAX

\* ------------------------------------------------------------------------
\* reserve and shrink_to_fit of a, beside a set b: a reserve, then a
\* shrink_to_fit, of every pair of built sets.

\* Arguments of reserve: below the inline threshold, just above it, and
\* above every stored word.
ReserveArgs == {1, BITS * SIZE + 1, BITS * (MaxWord + 2)}

FitReserve ==
    /\ op.name = "new"
    /\ \E n \in ReserveArgs :
           Call("reserve", "a", n, Res(reserve(a, n), NoRet, "none"))

FitShrinkToFit ==
    /\ op.name \in {"new", "reserve"}
    /\ Call("shrink_to_fit", "a", 0, Res(shrink_to_fit(a), NoRet, "none"))

NextFit == FitReserve \/ FitShrinkToFit

SpecFit == InitQuery /\ [][NextFit]_vars

\* C17: a reserve or a shrink_to_fit of a changes neither a's elements nor
\* its len, nor what ==, is_subset, is_superset and is_disjoint of a and any
\* other set b return, in either order.
C17_OnlyCapacityChanges ==
    [][op'.name \in {"reserve", "shrink_to_fit"} =>
          /\ fault' = "none"
          /\ Elems(a') = Elems(a)
          /\ a'.len = a.len
          /\ eq(a', b) = eq(a, b)
          /\ eq(b, a') = eq(b, a)
          /\ is_subset(a', b) = is_subset(a, b)
          /\ is_subset(b, a') = is_subset(b, a)
          /\ is_superset(a', b) = is_superset(a, b)
          /\ is_superset(b, a') = is_superset(b, a)
          /\ is_disjoint(a', b) = is_disjoint(a, b)
          /\ is_disjoint(b, a') = is_disjoint(b, a)]_vars

\* C18: after clear() the set is empty (len 0, contains false for every id)
\* and its storage is the empty inline storage, whether it was inline or on
\* the heap before.
C18_ClearDemotes ==
    op.name = "clear" =>
        /\ Pre(op.on).len = 0
        /\ \A id \in QueryIds : ~ contains(Pre(op.on), id)
        /\ Pre(op.on).blocks = BlockStore_new

\* C18, amended: after clear() the set is empty (len 0, no element, contains
\* false for every id); an inline storage is the empty inline storage, and a
\* heap storage stays on the heap, with no word and the capacity it had.
C18_ClearEmpties ==
    [][op'.name = "clear" =>
          \A t \in {op'.on} :
              /\ fault' = "none"
              /\ Post(t).len = 0
              /\ Elems(Post(t)) = {}
              /\ \A id \in QueryIds : ~ contains(Post(t), id)
              /\ Pre(t).blocks.kind = "Stack" => Post(t).blocks = BlockStore_new
              /\ Pre(t).blocks.kind = "Heap" =>
                     /\ Post(t).blocks.kind = "Heap"
                     /\ Post(t).blocks.data = <<>>
                     /\ capacity(Post(t)) = capacity(Pre(t))]_vars

\* A heap-stored a has been cleared, beside a b that holds ids.
C18_Witness ==
    /\ op.name = "clear"
    /\ op.on = "a"
    /\ op.was = "Heap"
    /\ a.blocks.kind = "Heap"
    /\ a.blocks.cap > SIZE
    /\ a.len = 0
    /\ b.len > 0

\* ------------------------------------------------------------------------
\* BlockStore::resize on its own: the blocks of a are a store collected from
\* words, resized any number of times.  len is the caller's to keep and is left as it
\* was.

\* The words the stores are collected from: every prefix is a store, inline
\* below SIZE words and on the heap from SIZE words on.
ResizeWords == <<{0, 5}, {1}, {}, {BITS - 1}, {2}, {7}, {0}, {3}>>

ResizeStores ==
    {from_bytes(Take(ResizeWords, n)) : n \in 0 .. Min({MaxWord + 1, Len(ResizeWords)})}

InitResize ==
    /\ a \in ResizeStores
    /\ b = IdSet_new
    /\ op = [name |-> "new", on |-> "a", arg |-> 0, was |-> a.blocks.kind]
    /\ ret = NoRet
    /\ fault = "none"
    /\ InitIdle

Resize ==
    /\ Running
    /\ \E new_len \in 0 .. MaxWord + 1 :
           Call("resize", "a", new_len,
                Res([a EXCEPT !.blocks = BlockStore_resize(@, new_len)], NoRet, "none"))

NextResize == Resize

SpecResize == InitResize /\ [][NextResize]_vars

\* C19: BlockStore::resize(new_len) keeps every word below both the old
\* length and new_len, and leaves every word from new_len on, or newly added,
\* zero, in both representations; an inline store resized below SIZE keeps
\* the words below new_len.
C19_ResizeKeepsWords ==
    [][op'.name = "resize" =>
          \A new_len \in {op'.arg} :
              /\ \A i \in 1 .. Min({Len(a.blocks.data), new_len}) :
                     a'.blocks.data[i] = a.blocks.data[i]
              /\ \A i \in 1 .. Len(a'.blocks.data) :
                     (i > new_len \/ i > Len(a.blocks.data)) =>
                         a'.blocks.data[i] = ZERO
              /\ a'.blocks.kind = "Heap" => Len(a'.blocks.data) = new_len]_vars

\* The operations that change a set in place, shrink_to_fit aside.
MutatorNames ==
    {"insert", "remove", "retain", "reserve", "clear", "inplace_union",
     "inplace_intersection", "inplace_difference", "inplace_symmetric_difference"}

\* C20: a set whose storage is on the heap is still on the heap after an
\* insert, remove, retain, reserve, clear or in-place union, intersection,
\* difference or symmetric difference; only shrink_to_fit brings it back to
\* the inline storage.
C20_HeapStays ==
    (op.name \in MutatorNames /\ op.was = "Heap") =>
        Pre(op.on).blocks.kind = "Heap"

\* An in-place intersection with an empty heap set left a heap-stored a with
\* fewer words than the inline array has, and still on the heap.
C20_Witness ==
    /\ op.name = "inplace_intersection"
    /\ op.on = "a"
    /\ op.was = "Heap"
    /\ a.blocks.kind = "Heap"
    /\ Len(a.blocks.data) < SIZE
    /\ b.blocks.kind = "Heap"

\* ------------------------------------------------------------------------
\* shrink_to_fit of sets whose last word not zero is below, at and above the
\* end of the inline array: a starts as with_capacity leaves it, on the heap,
\* and is inserted into, removed from and shrunk.

\* One id in the first block, and one each in the blocks SIZE - 1, SIZE and
\* SIZE + 1 (counted from 1), and in the last block of the model.
ShrinkIds ==
    {0, BITS * (SIZE - 2), BITS * (SIZE - 1), BITS * SIZE, BITS * MaxWord}

InitShrink ==
    /\ a \in {with_capacity(n) : n \in CapArgs}
    /\ b = IdSet_new
    /\ op = [name |-> "with_capacity", on |-> "a", arg |-> 0, was |-> "Stack"]
    /\ ret = NoRet
    /\ fault = "none"
    /\ InitIdle

ShrinkInsert ==
    /\ Running
    /\ \E id \in ShrinkIds : Call("insert", "a", id, insert(a, id))

ShrinkRemove ==
    /\ Running
    /\ \E id \in ShrinkIds : Call("remove", "a", id, remove(a, id))

ShrinkShrinkToFit ==
    /\ Running
    /\ Call("shrink_to_fit", "a", 0, Res(shrink_to_fit(a), NoRet, "none"))

NextShrink == ShrinkInsert \/ ShrinkRemove \/ ShrinkShrinkToFit

SpecShrink == InitShrink /\ [][NextShrink]_vars

\* The number of words of data up to its last word that is not zero.
UsedWords(data) == Max({0} \cup {i \in 1 .. Len(data) : data[i] # ZERO})

\* C21: shrink_to_fit() of a heap store drops the trailing zero words; the
\* store becomes inline when at most SIZE words remain, and stays on the heap
\* otherwise; the words that remain are as they were.
C21_ShrinkDemotesWhenFits ==
    [][(op'.name = "shrink_to_fit" /\ a.blocks.kind = "Heap") =>
          \A used \in {UsedWords(a.blocks.data)} :
              /\ fault' = "none"
              /\ a'.len = a.len
              /\ UsedWords(a'.blocks.data) = used
              /\ \A i \in 1 .. used : a'.blocks.data[i] = a.blocks.data[i]
              /\ used <= SIZE => a'.blocks.kind = "Stack"
              /\ used > SIZE =>
                     /\ a'.blocks.kind = "Heap"
                     /\ Len(a'.blocks.data) = used]_vars

\* C21, amended: shrink_to_fit() of a heap store drops the trailing zero
\* words; the store becomes inline when fewer than SIZE words remain, and
\* stays on the heap, holding exactly the remaining words, when SIZE or more
\* remain; the words that remain are as they were.
C21_ShrinkDemotesBelowSize ==
    [][(op'.name = "shrink_to_fit" /\ a.blocks.kind = "Heap") =>
          \A used \in {UsedWords(a.blocks.data)} :
              /\ fault' = "none"
              /\ a'.len = a.len
              /\ UsedWords(a'.blocks.data) = used
              /\ \A i \in 1 .. used : a'.blocks.data[i] = a.blocks.data[i]
              /\ used < SIZE => a'.blocks.kind = "Stack"
              /\ used >= SIZE =>
                     /\ a'.blocks.kind = "Heap"
                     /\ Len(a'.blocks.data) = used]_vars

\* A shrink_to_fit has left on the heap a set of exactly SIZE words, the
\* last of them not zero, whose capacity was more than SIZE words before.
C21_Witness ==
    /\ op.name = "shrink_to_fit"
    /\ op.was = "Heap"
    /\ a.blocks.kind = "Heap"
    /\ Len(a.blocks.data) = SIZE
    /\ a.blocks.cap = SIZE
    /\ a.blocks.data[SIZE] # ZERO
    /\ a.len = 2

\* C22: an in-place union or symmetric difference extends the storage of
\* self only when the other set stores more words: when it stores no more
\* words than self, self keeps its representation and its number of words,
\* so an inline self is still inline.
C22_NoNeedlessPromotion ==
    [][op'.name \in {"inplace_union", "inplace_symmetric_difference"} =>
          \A t \in {op'.on} :
              Len(Other(t).blocks.data) <= Len(Pre(t).blocks.data) =>
                  /\ Post(t).blocks.kind = Pre(t).blocks.kind
                  /\ Len(Post(t).blocks.data) = Len(Pre(t).blocks.data)]_vars

\* ------------------------------------------------------------------------
\* A combinator of the blocks of two sets, consumed one next() at a time.
\* The left side is a borrowed or an owned set (a & &b or &a & &b), the right
\* side a borrowed one; it is the combinator, out the blocks it has yielded.

\* Sets of 0 to MaxWord + 1 blocks, inline and on the heap, and two heap sets
\* of fewer blocks than the inline array has.
BlockSets ==
    ResizeStores \cup
        {with_capacity(n) : n \in CapArgs} \cup
        {insert(with_capacity(n), BITS + 1).set : n \in CapArgs}

InitBlocks ==
    /\ a \in BlockSets
    /\ b \in BlockSets
    /\ op = [name |-> "new", on |-> "a", arg |-> FALSE, was |-> a.blocks.kind]
    /\ ret = NoRet
    /\ fault = "none"
    /\ InitIdle

\* The blocks of a: a.into_block_iter() when owned, (&a).into_block_iter()
\* when borrowed.
LeftBlocks(owned) ==
    IF owned THEN BlockStore_into_iter(a.blocks) ELSE into_block_iter(a)

\* The combinator `view` of a and &b is built.
StartBlocks(name, owned, view) ==
    /\ op' = Op(name, "a", owned)
    /\ it' = view
    /\ pc' = "iter"
    /\ UNCHANGED <<a, b, ret, fault, input, src, coll, out>>

BlocksUnion ==
    /\ pc = "idle"
    /\ \E owned \in BOOLEAN :
           StartBlocks("Union", owned,
                       union(LeftBlocks(owned), into_block_iter(b)))

BlocksIntersection ==
    /\ pc = "idle"
    /\ \E owned \in BOOLEAN :
           StartBlocks("Intersection", owned,
                       intersection(LeftBlocks(owned), into_block_iter(b)))

BlocksSymmetricDifference ==
    /\ pc = "idle"
    /\ \E owned \in BOOLEAN :
           StartBlocks("SymmetricDifference", owned,
                       symmetric_difference(LeftBlocks(owned), into_block_iter(b)))

BlocksDifference ==
    /\ pc = "idle"
    /\ \E owned \in BOOLEAN :
           StartBlocks("Difference", owned,
                       difference(LeftBlocks(owned), into_block_iter(b)))

\* (a | &b) - (&a & &b): a combinator of combinators.
BlocksDifferenceOfUnion ==
    /\ pc = "idle"
    /\ \E owned \in BOOLEAN :
           StartBlocks("DifferenceOfUnion", owned,
                       difference(union(LeftBlocks(owned), into_block_iter(b)),
                                  intersection(into_block_iter(a), into_block_iter(b))))

\* One next() of the combinator: a block is appended to out, None ends it.
BlocksNext ==
    /\ pc = "iter"
    /\ LET n == block_next(it)
       IN  /\ it' = n.it
           /\ out' = IF n.item = None THEN out ELSE Append(out, n.item[1])
           /\ pc' = IF n.item = None THEN "done" ELSE "iter"
    /\ UNCHANGED <<a, b, op, ret, fault, input, src, coll>>

NextBlocks ==
    \/ BlocksUnion
    \/ BlocksIntersection
    \/ BlocksSymmetricDifference
    \/ BlocksDifference
    \/ BlocksDifferenceOfUnion
    \/ BlocksNext

SpecBlocks == InitBlocks /\ [][NextBlocks]_vars

\* The number of blocks a block iterator yields before its first None.
RECURSIVE StillYields(_)
StillYields(bi) ==
    LET n == block_next(bi)
    IN  IF n.item = None THEN 0 ELSE 1 + StillYields(n.it)

\* What is left of n blocks after k of them.
LeftOf(n, k) == IF n > k THEN n - k ELSE 0

\* C23: at every point of its consumption the len of a combinator is the
\* number of blocks it still yields, and it is, of the blocks left on the two
\* sides, the larger for Union and SymmetricDifference, the smaller for
\* Intersection, the left side's for Difference.  Union and
\* SymmetricDifference yield the longer side's blocks as they are past the
\* end of the shorter, Intersection yields as many blocks as the shorter
\* side has, and Difference yields the left blocks as they are past the end
\* of the right; a Difference of a Union on the left reports what the Union
\* has left.
C23_CombinatorLen ==
    pc \in {"iter", "done"} =>
        LET k == Len(out)
            l == Len(a.blocks.data)
            r == Len(b.blocks.data)
        IN  /\ block_len(it) = StillYields(it)
            /\ pc = "done" => block_len(it) = 0
            /\ op.name \in {"Union", "SymmetricDifference"} =>
                   /\ block_len(it) = Max({LeftOf(l, k), LeftOf(r, k)})
                   /\ \A i \in 1 .. k :
                          /\ i > r => out[i] = a.blocks.data[i]
                          /\ i > l => out[i] = b.blocks.data[i]
            /\ op.name = "Intersection" =>
                   /\ block_len(it) = Min({LeftOf(l, k), LeftOf(r, k)})
                   /\ pc = "done" => k = Min({l, r})
            /\ op.name = "Difference" =>
                   /\ block_len(it) = LeftOf(l, k)
                   /\ \A i \in 1 .. k : i > r => out[i] = a.blocks.data[i]
            /\ op.name = "DifferenceOfUnion" =>
                   /\ block_len(it) = LeftOf(Max({l, r}), k)
                   /\ block_len(it.left) = StillYields(it.left)
                   /\ block_len(it.right) = StillYields(it.right)

\* A union of an owned inline set and a longer heap set has yielded the
\* inline blocks and one block of the heap set alone, and has more to yield.
C23_Witness ==
    /\ pc = "iter"
    /\ op.name = "Union"
    /\ op.arg
    /\ a.blocks.kind = "Stack"
    /\ b.blocks.kind = "Heap"
    /\ Len(out) = SIZE + 1
    /\ out[SIZE + 1] # ZERO
    /\ block_len(it) >= 1

\* C24: no call on a set fails the assertion idx <= SIZE of drain, or any
\* other check: an in-place intersection with an operand of fewer, as many
\* or more words, inline or on the heap, does not panic; an inline set stays
\* inline, its slots from the operand's number of words on are zero after
\* it, and the slots before are the and of the two words.
C24_DrainNeverPanics ==
    [][/\ fault' = "none"
       /\ op'.name = "inplace_intersection" =>
              \A n \in {Len(op'.arg.blocks.data)} :
                  \A s \in {<<a, a'>>, <<b, b'>>} :
                      s[1].blocks.kind = "Stack" =>
                          /\ s[2].blocks.kind = "Stack"
                          /\ \A i \in 1 .. SIZE :
                                 s[2].blocks.data[i] =
                                     IF i > n THEN ZERO
                                     ELSE BitAnd(s[1].blocks.data[i],
                                                 op'.arg.blocks.data[i])]_vars

\* An in-place intersection of an inline set with a heap operand of more
\* words than the inline array has, which left it an id.
C24_Witness ==
    /\ op.name = "inplace_intersection"
    /\ op.was = "Stack"
    /\ op.arg.blocks.kind = "Heap"
    /\ Len(op.arg.blocks.data) > SIZE
    /\ a.blocks.kind = "Stack"
    /\ a.len >= 1
    /\ fault = "none"

====
